---------------------------- MODULE Spec2Model ----------------------------
(***************************************************************************)
(* A model of the book-fetcher repository:                                 *)
(*   src/download_book_script/download_books.py  (BookFetcher, main)       *)
(*   src/get_book_links/get_book_links.py        (search_*, fetch_books)   *)
(*                                                                         *)
(* Python strings are sequences of one-character strings, so that the      *)
(* substring tests, lower(), join() and the filename sanitisation are      *)
(* computed character by character as the code computes them.  An optional *)
(* JSON key is a sequence of length 0 (key absent) or 1 (its value).       *)
(***************************************************************************)
EXTENDS Integers, Sequences, FiniteSets, TLC

VARIABLES
    pc,             \* position of the running script
    folder,         \* state of the download folder on disk
    ol_data,        \* HTTP outcome of the OpenLibrary request (download_books)
    pg_data,        \* HTTP outcome of the Gutendex request
    results,        \* main(): results
    unique_results, \* main(): unique_results
    inputs,         \* display_results: the lines read from the terminal so far
    prompts,        \* display_results: number of prompts issued
    messages,       \* display_results: number of rejection messages printed
    selected,       \* display_results' return value: <<>> is None, <<r>> a result
    dl,             \* download_book: the call's local state
    ret,            \* download_book's return value: "none", "true", "false"
    uncaught,       \* class of the exception that left the script, "" when none
    links           \* get_book_links: state of fetch_books

vars == <<pc, folder, ol_data, pg_data, results, unique_results, inputs,
          prompts, messages, selected, dl, ret, uncaught, links>>

----------------------------------------------------------------------------
(* Bounds of the model. *)

\* formats listed per doc / book of a search response
MaxFormats == 2
\* lines the user may type at the selection prompt before the model stops
MaxPrompts == 4
\* length of the result list handed to display_results in SpecDisplay
MaxResults == 3
\* chunks a download may deliver
MaxChunks == 3

----------------------------------------------------------------------------
(* Strings. *)

Uppers == <<"A","B","C","D","E","F","G","H","I","J","K","L","M",
            "N","O","P","Q","R","S","T","U","V","W","X","Y","Z">>

Lowers == <<"a","b","c","d","e","f","g","h","i","j","k","l","m",
            "n","o","p","q","r","s","t","u","v","w","x","y","z">>

Digits == <<"0","1","2","3","4","5","6","7","8","9">>

Range(s) == {s[i] : i \in DOMAIN s}

\* str.lower() on one character
LowerChar(c) ==
    IF c \in Range(Uppers)
    THEN Lowers[CHOOSE i \in DOMAIN Uppers : Uppers[i] = c]
    ELSE c

\* str.lower()
Lower(s) == [i \in DOMAIN s |-> LowerChar(s[i])]

\* the Python test `sub in s`
Contains(sub, s) ==
    \E i \in 0..(Len(s) - Len(sub)) : SubSeq(s, i + 1, i + Len(sub)) = sub

\* str.isalnum() on one character (of the model's alphabet)
IsAlnum(c) == c \in Range(Uppers) \cup Range(Lowers) \cup Range(Digits)

RECURSIVE Concat(_)
\* the concatenation of a sequence of sequences
Concat(ss) == IF ss = <<>> THEN <<>> ELSE Head(ss) \o Concat(Tail(ss))

RECURSIVE Join(_, _)
\* sep.join(items): items is a sequence of strings, or one string, whose
\* characters Python then joins one by one
Join(sep, items) ==
    IF items = <<>> THEN <<>>
    ELSE IF Len(items) = 1 THEN Head(items)
    ELSE Head(items) \o sep \o Join(sep, Tail(items))

\* a string iterated as the sequence of its one-character strings
Chars(s) == [i \in DOMAIN s |-> <<s[i]>>]

CommaSpace == <<",", " ">>
Unknown == <<"U","n","k","n","o","w","n">>
PDF == <<"P","D","F">>
EPUB == <<"E","P","U","B">>


----------------------------------------------------------------------------
(* download_books.py: BookResult and the two SourceClients.                *)
(*                                                                         *)
(* An HTTP outcome is [kind, data]: kind "network_error" (requests.get     *)
(* raises), "http_error" (raise_for_status raises), "not_json"             *)
(* (response.json() raises) or "json", and then data is the decoded body:  *)
(* [shape |-> "dict", items |-> <<>> or <<list>>], the list under "docs"   *)
(* or "results", or shape "other" for a body that is no JSON object.       *)

\* no request made yet
NoResponse == [kind |-> "none", data |-> [shape |-> "none", items |-> <<>>]]

\* a request that failed: kind is "network_error" or "http_error"
Failed(kind) == [kind |-> kind, data |-> [shape |-> "none", items |-> <<>>]]

\* a 2xx response whose body decodes to a JSON object, items being the
\* optional list under its "docs", "results" or "items" key
Json(items) == [kind |-> "json", data |-> [shape |-> "dict", items |-> items]]

\* a 2xx response whose body decodes to JSON that is no object
JsonOther == [kind |-> "json", data |-> [shape |-> "other", items |-> <<>>]]

\* a 2xx response whose body is no JSON
NotJson == [kind |-> "not_json", data |-> [shape |-> "none", items |-> <<>>]]

BookResult(title, author, format, source, download_url) ==
    [title |-> title, author |-> author, format |-> format,
     source |-> source, download_url |-> download_url]

\* dict.get(key, default) on an optional key
Get(opt, default) == IF opt = <<>> THEN default ELSE opt[1]

DotPdf == <<".","p","d","f">>
DotEpub == <<".","e","p","u","b">>
Pdf == <<"p","d","f">>
Epub == <<"e","p","u","b">>

\* line 53: the OpenLibrary format filter
OLMatches(fmt) == Contains(DotPdf, Lower(fmt)) \/ Contains(DotEpub, Lower(fmt))

\* line 82: the Gutenberg format filter
PGMatches(fmt_type) == Contains(Pdf, Lower(fmt_type)) \/ Contains(Epub, Lower(fmt_type))

\* lines 54-62: the BookResult built for one matching OpenLibrary format
OLResult(doc, fmt) ==
    BookResult(Get(doc.title, Unknown),
               Join(CommaSpace, Get(doc.author_name, <<Unknown>>)),
               IF Contains(DotPdf, Lower(fmt)) THEN PDF ELSE EPUB,
               "OpenLibrary",
               fmt)

\* lines 51-62 for one doc: the results it appends
OLDocResults(doc) ==
    LET formats == Get(doc.formats, <<>>)
    IN  Concat([i \in DOMAIN formats |->
                  IF OLMatches(formats[i]) THEN <<OLResult(doc, formats[i])>>
                  ELSE <<>>])

\* lines 51-62 for one doc: whether an exception is raised (a doc that is
\* no JSON object has no .get)
OLDocRaises(doc) == doc.shape # "dict"

\* lines 84-90: whether building the BookResult of a matching Gutenberg
\* format raises: authors[0] on an empty list (IndexError), or join() on
\* the None that .get("name") returns for an author without a name
PGAuthorRaises(book) ==
    LET authors == Get(book.authors, <<[name |-> <<Unknown>>]>>)
    IN  \/ authors = <<>>
        \/ authors[1].name = <<>>

\* line 86: ", ".join(<the first author's name>), the name being a string
PGAuthor(book) ==
    LET authors == Get(book.authors, <<[name |-> <<Unknown>>]>>)
    IN  Join(CommaSpace, Chars(authors[1].name[1]))

\* lines 83-91: the BookResult built for one matching Gutenberg format
PGResult(book, fmt_type, url) ==
    BookResult(Get(book.title, Unknown),
               PGAuthor(book),
               IF Contains(Pdf, Lower(fmt_type)) THEN PDF ELSE EPUB,
               "Project Gutenberg",
               url)

\* lines 80-91 for one book: whether an exception is raised
PGBookRaises(book) ==
    \/ book.shape # "dict"
    \/ LET formats == Get(book.formats, <<>>)
       IN  /\ \E i \in DOMAIN formats : PGMatches(formats[i][1])
           /\ PGAuthorRaises(book)

\* lines 80-91 for one book that raises nothing: the results it appends
PGBookResults(book) ==
    LET formats == Get(book.formats, <<>>)
    IN  Concat([i \in DOMAIN formats |->
                  IF PGMatches(formats[i][1])
                  THEN <<PGResult(book, formats[i][1], formats[i][2])>>
                  ELSE <<>>])

\* whether the request, the status check or the decoding raises
HttpRaises(resp) == resp.kind # "json"

\* lines 44-66: whether the try block of search_open_library raises
OLRaises(resp) ==
    \/ HttpRaises(resp)
    \/ resp.data.shape # "dict"
    \/ LET docs == Get(resp.data.items, <<>>)
       IN  \E i \in DOMAIN docs : OLDocRaises(docs[i])

\* lines 39-66: search_open_library's return value
search_open_library(resp) ==
    IF OLRaises(resp) THEN <<>>
    ELSE LET docs == Get(resp.data.items, <<>>)
         IN  Concat([i \in DOMAIN docs |-> OLDocResults(docs[i])])

\* lines 73-95: whether the try block of search_project_gutenberg raises
PGRaises(resp) ==
    \/ HttpRaises(resp)
    \/ resp.data.shape # "dict"
    \/ LET books == Get(resp.data.items, <<>>)
       IN  \E i \in DOMAIN books : PGBookRaises(books[i])

\* lines 68-95: search_project_gutenberg's return value
search_project_gutenberg(resp) ==
    IF PGRaises(resp) THEN <<>>
    ELSE LET books == Get(resp.data.items, <<>>)
         IN  Concat([i \in DOMAIN books |-> PGBookResults(books[i])])

----------------------------------------------------------------------------
(* main(), line 181: {r.download_url: r for r in results}.values().        *)
(* A Python dict keeps a key at the place of its first insertion and       *)
(* replaces its value on every later insertion.                            *)

\* DictPut without the replacement of an existing key: a list, not a dict
DictPutAppends(d, key, value) == Append(d, <<key, value>>)

\* DictPut that keeps the value a key already has
DictPutKeepsFirst(d, key, value) ==
    IF \E i \in DOMAIN d : d[i][1] = key THEN d ELSE Append(d, <<key, value>>)

\* d[key] = value on a dict kept as the sequence of its <<key, value>> items
DictPut(d, key, value) ==
    IF \E i \in DOMAIN d : d[i][1] = key
    THEN [i \in DOMAIN d |-> IF d[i][1] = key THEN <<key, value>> ELSE d[i]]
    ELSE Append(d, <<key, value>>)

RECURSIVE DictOf(_, _)
\* the dict comprehension, the items of rs inserted in order into d
DictOf(d, rs) ==
    IF rs = <<>> THEN d
    ELSE DictOf(DictPut(d, Head(rs).download_url, Head(rs)), Tail(rs))

\* list(dict.values())
Values(d) == [i \in DOMAIN d |-> d[i][2]]

\* line 181
Dedupe(rs) == Values(DictOf(<<>>, rs))

----------------------------------------------------------------------------
(* BookFetcher.display_results, lines 129-164.                             *)

Whitespace == {" ", "\t", "\n"}

RECURSIVE LStrip(_)
LStrip(s) == IF s # <<>> /\ Head(s) \in Whitespace THEN LStrip(Tail(s)) ELSE s

RECURSIVE RStrip(_)
\* str.rstrip()
RStrip(s) ==
    IF s # <<>> /\ s[Len(s)] \in Whitespace
    THEN RStrip(SubSeq(s, 1, Len(s) - 1))
    ELSE s

DigitValue(c) == (CHOOSE i \in DOMAIN Digits : Digits[i] = c) - 1

RECURSIVE Decimal(_)
\* the value of a non-empty string of digits
Decimal(ds) ==
    IF Len(ds) = 1 THEN DigitValue(ds[1])
    ELSE 10 * Decimal(SubSeq(ds, 1, Len(ds) - 1)) + DigitValue(ds[Len(ds)])

\* int(choice), line 158: surrounding whitespace is ignored, one sign is
\* allowed, the rest must be digits.  <<>> stands for ValueError, <<n>> for n.
ParseInt(choice) ==
    LET t == RStrip(LStrip(choice))
        signed == t # <<>> /\ t[1] \in {"+", "-"}
        ds == IF signed THEN Tail(t) ELSE t
    IN  IF ds = <<>> \/ \E i \in DOMAIN ds : ds[i] \notin Range(Digits)
        THEN <<>>
        ELSE <<(IF signed /\ t[1] = "-" THEN -1 ELSE 1) * Decimal(ds)>>

\* line 155
IsQuit(choice) == Lower(choice) = <<"q">>

\* ChoiceIndex without the "- 1" of line 158
ChoiceIndexFromZero(choice, n) ==
    LET v == ParseInt(choice)
    IN  IF v # <<>> /\ 0 <= v[1] /\ v[1] < n THEN <<v[1] + 1>> ELSE <<>>

\* lines 157-160: the index a choice selects in a list of n results, <<>>
\* when it selects none
ChoiceIndex(choice, n) ==
    LET v == ParseInt(choice)
    IN  IF v # <<>> /\ 0 <= v[1] - 1 /\ v[1] - 1 < n THEN <<v[1]>> ELSE <<>>

\* DisplayResults without the test of line 131
DisplayResultsAlwaysPrompts ==
    /\ pc = "display"
    /\ pc' = "prompt"
    /\ UNCHANGED <<folder, ol_data, pg_data, results, unique_results, inputs,
                   prompts, messages, selected, dl, ret, uncaught, links>>

\* lines 131-133 and 135-151: the empty list returns None at once, any
\* other list is printed as a table and the loop is entered
DisplayResults ==
    /\ pc = "display"
    /\ IF unique_results = <<>>
       THEN /\ selected' = <<>>
            /\ pc' = "displayed"
       ELSE /\ pc' = "prompt"
            /\ UNCHANGED selected
    /\ UNCHANGED <<folder, ol_data, pg_data, results, unique_results, inputs,
                   prompts, messages, dl, ret, uncaught, links>>

\* line 154, first half: console.input prints the prompt
IssuePrompt(cap) ==
    /\ pc = "prompt"
    /\ prompts < cap
    /\ prompts' = prompts + 1
    /\ pc' = "read"
    /\ UNCHANGED <<folder, ol_data, pg_data, results, unique_results, inputs,
                   messages, selected, dl, ret, uncaught, links>>

\* lines 154-164: the user's line arrives and is judged
ReadChoice(lines) ==
    /\ pc = "read"
    /\ \E choice \in lines :
         /\ inputs' = Append(inputs, choice)
         /\ IF IsQuit(choice)
            THEN /\ selected' = <<>>
                 /\ pc' = "displayed"
                 /\ UNCHANGED messages
            ELSE LET k == ChoiceIndex(choice, Len(unique_results))
                 IN  IF k # <<>>
                     THEN /\ selected' = <<unique_results[k[1]]>>
                          /\ pc' = "displayed"
                          /\ UNCHANGED messages
                     ELSE /\ messages' = messages + 1
                          /\ pc' = "prompt"
                          /\ UNCHANGED selected
    /\ UNCHANGED <<folder, ol_data, pg_data, results, unique_results, prompts,
                   dl, ret, uncaught, links>>

----------------------------------------------------------------------------
(* BookFetcher.download_book, lines 97-127.                                *)
(*                                                                         *)
(* The HTTP outcome of the download is [kind, content_length, body,        *)
(* chunking]: kind "network_error", "http_error" or "ok"; content_length   *)
(* the optional header, a string; body "ok" or "error" says whether        *)
(* reading response.content succeeds; chunking says how iter_content       *)
(* cuts the body: "full" chunks of chunk_size bytes, the last one shorter, *)
(* or "ragged" chunks of any of ChunkSizes.                                *)

\* line 115
chunk_size == 8192

RECURSIVE KeepSafe(_)
\* line 104: the characters of the title that are alphanumeric or one of
\* ' ', '-', '_'
KeepSafe(title) ==
    IF title = <<>> THEN <<>>
    ELSE IF IsAlnum(Head(title)) \/ Head(title) \in {" ", "-", "_"}
         THEN <<Head(title)>> \o KeepSafe(Tail(title))
         ELSE KeepSafe(Tail(title))

\* SafeTitle without the rstrip()
SafeTitleUnstripped(title) == KeepSafe(title)

\* line 104
SafeTitle(title) == RStrip(KeepSafe(title))

\* line 105
Filename(book_result) ==
    SafeTitle(book_result.title) \o <<".">> \o Lower(book_result.format)

RECURSIVE GCD(_, _)
GCD(a, b) == IF b = 0 THEN a ELSE GCD(b, a % b)

\* lines 119-120: the tenths of a percent that f"{percent:.1f}" can print
\* for percent = (downloaded / total_size) * 100.  The exact quotient is
\* rounded to the nearest tenth; when it lies exactly between two tenths
\* the float's low bits decide, and both neighbours are allowed.
ShownTenths(downloaded, total_size) ==
    LET g == GCD(downloaded, total_size)
        n == (downloaded \div g) * 1000
        m == total_size \div g
        q == n \div m
        r == n % m
    IN  IF 2 * r < m THEN {q}
        ELSE IF 2 * r > m THEN {q + 1}
        ELSE {q, q + 1}

\* Received with "=" for "+="
ReceivedOverwrites(downloaded, len) == len

\* downloaded += len(chunk), line 118
Received(downloaded, len) == downloaded + len

\* line 116: whether a chunk is written and reported
ChunkCounts(len) == len # 0

Idle ==
    [stage |-> "idle", filename |-> <<>>, total_size |-> 0, downloaded |-> 0,
     prev_downloaded |-> 0, shown |-> -1, prev_shown |-> -1, reports |-> 0,
     chunks |-> 0, chunking |-> "none", file |-> "none"]

\* the except clause, lines 125-127
DownloadFailed(d) ==
    /\ dl' = [d EXCEPT !.stage = "failed"]
    /\ ret' = "false"
    /\ pc' = "done"

\* lines 122-123
DownloadSucceeded(d) ==
    /\ dl' = [d EXCEPT !.stage = "succeeded"]
    /\ ret' = "true"
    /\ pc' = "done"

\* lines 99-112: the request, the filename, the content length, the file,
\* and the whole body at once when no length is known
DownloadStart(responses) ==
    /\ pc = "download"
    /\ \E r \in responses, can_open \in BOOLEAN, can_write \in BOOLEAN :
         LET book_result == selected[1]
             named == [Idle EXCEPT !.filename = Filename(book_result),
                                   !.chunking = r.chunking]
             length == ParseInt(Get(r.content_length, <<"0">>))
             sized == [named EXCEPT !.total_size = length[1]]
             opened == [sized EXCEPT !.file = "open"]
         IN  IF r.kind # "ok" THEN DownloadFailed(Idle)
             ELSE IF length = <<>> THEN DownloadFailed(named)
             ELSE IF ~can_open THEN DownloadFailed(sized)
             ELSE IF sized.total_size = 0
                  THEN IF r.body = "ok" /\ can_write
                       THEN DownloadSucceeded([opened EXCEPT !.file = "written"])
                       ELSE DownloadFailed(opened)
                  ELSE /\ dl' = [opened EXCEPT !.stage = "streaming"]
                       /\ pc' = "streaming"
                       /\ UNCHANGED ret
    /\ UNCHANGED <<folder, ol_data, pg_data, results, unique_results, inputs,
                   prompts, messages, selected, uncaught, links>>

\* the lengths the next chunk of the stream may have
NextLengths(d, sizes) ==
    IF d.chunking = "full"
    THEN IF d.downloaded < d.total_size
         THEN {IF d.total_size - d.downloaded < chunk_size
               THEN d.total_size - d.downloaded ELSE chunk_size}
         ELSE {}
    ELSE IF d.chunks < MaxChunks THEN sizes ELSE {}

\* lines 115-120: one chunk arrives
DownloadChunk(sizes) ==
    /\ pc = "streaming"
    /\ \E len \in NextLengths(dl, sizes) :
         IF ChunkCounts(len)
         THEN LET downloaded == Received(dl.downloaded, len)
              IN  \E tenths \in ShownTenths(downloaded, dl.total_size) :
                    dl' = [dl EXCEPT !.chunks = @ + 1,
                                     !.prev_downloaded = dl.downloaded,
                                     !.downloaded = downloaded,
                                     !.prev_shown = dl.shown,
                                     !.shown = tenths,
                                     !.reports = @ + 1]
         ELSE dl' = [dl EXCEPT !.chunks = @ + 1]
    /\ UNCHANGED <<pc, folder, ol_data, pg_data, results, unique_results,
                   inputs, prompts, messages, selected, ret, uncaught, links>>

\* lines 115-117 raising: the connection breaks or the write fails; the
\* exception is caught at line 125
DownloadChunkFails ==
    /\ pc = "streaming"
    /\ DownloadFailed(dl)
    /\ UNCHANGED <<folder, ol_data, pg_data, results, unique_results, inputs,
                   prompts, messages, selected, uncaught, links>>

\* the stream ends: lines 122-123
DownloadEnd ==
    /\ pc = "streaming"
    /\ DownloadSucceeded([dl EXCEPT !.file = "written"])
    /\ UNCHANGED <<folder, ol_data, pg_data, results, unique_results, inputs,
                   prompts, messages, selected, uncaught, links>>

----------------------------------------------------------------------------
(* main(), lines 166-187, and BookFetcher.__init__, lines 23-37.           *)

\* lines 168 and 23-37: BookFetcher() creates the download folder when it
\* does not exist; os.makedirs raises OSError when it cannot, and nothing
\* in __init__ or main catches it
Construct ==
    /\ pc = "start"
    /\ IF folder = "blocked"
       THEN /\ uncaught' = "OSError"
            /\ pc' = "crashed"
            /\ UNCHANGED folder
       ELSE /\ folder' = "present"
            /\ pc' = "query"
            /\ UNCHANGED uncaught
    /\ UNCHANGED <<ol_data, pg_data, results, unique_results, inputs, prompts,
                   messages, selected, dl, ret, links>>

\* lines 171-176: title and author are read; they only shape the requests
ReadQuery ==
    /\ pc = "query"
    /\ pc' = "search_ol"
    /\ results' = <<>>
    /\ UNCHANGED <<folder, ol_data, pg_data, unique_results, inputs, prompts,
                   messages, selected, dl, ret, uncaught, links>>

\* line 177
SearchOpenLibrary(responses) ==
    /\ pc = "search_ol"
    /\ \E resp \in responses :
         /\ ol_data' = resp
         /\ results' = results \o search_open_library(resp)
    /\ pc' = "search_pg"
    /\ UNCHANGED <<folder, pg_data, unique_results, inputs, prompts, messages,
                   selected, dl, ret, uncaught, links>>

\* line 178
SearchProjectGutenberg(responses) ==
    /\ pc = "search_pg"
    /\ \E resp \in responses :
         /\ pg_data' = resp
         /\ results' = results \o search_project_gutenberg(resp)
    /\ pc' = "dedupe"
    /\ UNCHANGED <<folder, ol_data, unique_results, inputs, prompts, messages,
                   selected, dl, ret, uncaught, links>>

\* line 181
RemoveDuplicates ==
    /\ pc = "dedupe"
    /\ unique_results' = Dedupe(results)
    /\ pc' = "display"
    /\ UNCHANGED <<folder, ol_data, pg_data, results, inputs, prompts,
                   messages, selected, dl, ret, uncaught, links>>

\* lines 184-187: display_results has returned; a selection is downloaded
AfterDisplay ==
    /\ pc = "displayed"
    /\ pc' = IF selected # <<>> THEN "download" ELSE "done"
    /\ UNCHANGED <<folder, ol_data, pg_data, results, unique_results, inputs,
                   prompts, messages, selected, dl, ret, uncaught, links>>

----------------------------------------------------------------------------
(* get_book_links.py.  A result is [title, authors, download_link]; a      *)
(* search returns [raised, value]: raised is "" and value the list, or     *)
(* raised is the class of the exception that leaves the function.          *)
(* An HTTP outcome of kind "not_json" carries decode_error, the class      *)
(* response.json() raises: requests' JSONDecodeError, a RequestException,  *)
(* or, with an older requests, a plain ValueError.                         *)

Returned(value) == [raised |-> "", value |-> value]

Raised(class) == [raised |-> class, value |-> <<>>]

\* the classes `except requests.RequestException` catches, lines 25 and 48
Caught(class) == class = "RequestException"

\* lines 14-16 and 37-39: the exception the request, the status check, the
\* decoding or .get on the decoded body raises, "" when none
FetchError(resp) ==
    IF resp.kind \in {"network_error", "http_error"} THEN "RequestException"
    ELSE IF resp.kind = "not_json" THEN resp.decode_error
    ELSE IF resp.data.shape # "dict" THEN "AttributeError"
    ELSE ""

\* lines 18-22 for one item: the exception building its dict raises
GoogleItemError(book) ==
    IF book.shape # "dict" THEN "TypeError"
    ELSE IF book.volumeInfo = <<>> \/ book.accessInfo = <<>> THEN "KeyError"
    ELSE ""

NotAvailable == <<"N","/","A">>

\* lines 18-22
GoogleItem(book) ==
    [title |-> book.volumeInfo[1].title,
     authors |-> Get(book.volumeInfo[1].authors, <<>>),
     download_link |-> Get(book.accessInfo[1].webReaderLink, NotAvailable)]

\* the first exception among e1, e2, ... in evaluation order
FirstError(errors) ==
    IF \A i \in DOMAIN errors : errors[i] = "" THEN ""
    ELSE errors[CHOOSE i \in DOMAIN errors :
                  /\ errors[i] # ""
                  /\ \A j \in 1..(i - 1) : errors[j] = ""]

\* the try/except of lines 13-27 and 36-50
Guarded(error, value) ==
    IF error = "" THEN Returned(value)
    ELSE IF Caught(error) THEN Returned(<<>>)
    ELSE Raised(error)

\* lines 6-27
search_google_books(resp) ==
    LET books == Get(resp.data.items, <<>>)
        error == IF FetchError(resp) # "" THEN FetchError(resp)
                 ELSE FirstError([i \in DOMAIN books |-> GoogleItemError(books[i])])
    IN  Guarded(error, [i \in DOMAIN books |-> GoogleItem(books[i])])

OpenLibraryHost == <<"o","l",":">>

NoneText == <<"N","o","n","e">>

\* lines 41-45 for one doc
LinksDocError(book) == IF book.shape # "dict" THEN "AttributeError" ELSE ""

\* lines 41-45; the f-string prints a missing key as None
LinksDoc(book) ==
    [title |-> book.title,
     authors |-> Get(book.author_name, <<>>),
     download_link |-> OpenLibraryHost \o Get(book.key, NoneText)]

\* lines 29-50
links_search_open_library(resp) ==
    LET books == Get(resp.data.items, <<>>)
        error == IF FetchError(resp) # "" THEN FetchError(resp)
                 ELSE FirstError([i \in DOMAIN books |-> LinksDocError(books[i])])
    IN  Guarded(error, [i \in DOMAIN books |-> LinksDoc(books[i])])

\* str.strip()
Strip(s) == RStrip(LStrip(s))

LinksIdle ==
    [pc |-> "names", google_books |-> <<>>, open_library_books |-> <<>>,
     all_books |-> <<>>, listed |-> <<>>, uncaught |-> "",
     google |-> NoResponse, open_library |-> NoResponse]

\* lines 53-59: both names are read and stripped; both are required
LinksReadNames(names) ==
    /\ links.pc = "names"
    /\ \E book_name \in names, author_name \in names :
         links' = [links EXCEPT !.pc =
                     IF Strip(book_name) = <<>> \/ Strip(author_name) = <<>>
                     THEN "done" ELSE "google"]
    /\ UNCHANGED <<pc, folder, ol_data, pg_data, results, unique_results,
                   inputs, prompts, messages, selected, dl, ret, uncaught>>

\* lines 61-63
LinksSearchGoogle(responses) ==
    /\ links.pc = "google"
    /\ \E resp \in responses :
         LET out == search_google_books(resp)
         IN  links' = IF out.raised # ""
                      THEN [links EXCEPT !.pc = "crashed",
                                         !.google = resp,
                                         !.uncaught = out.raised]
                      ELSE [links EXCEPT !.pc = "open_library",
                                         !.google = resp,
                                         !.google_books = out.value]
    /\ UNCHANGED <<pc, folder, ol_data, pg_data, results, unique_results, inputs,
                   prompts, messages, selected, dl, ret, uncaught>>

\* lines 65-67
LinksSearchOpenLibrary(responses) ==
    /\ links.pc = "open_library"
    /\ \E resp \in responses :
         LET out == links_search_open_library(resp)
         IN  links' = IF out.raised # ""
                      THEN [links EXCEPT !.pc = "crashed",
                                         !.open_library = resp,
                                         !.uncaught = out.raised]
                      ELSE [links EXCEPT !.pc = "list",
                                         !.open_library = resp,
                                         !.open_library_books = out.value]
    /\ UNCHANGED <<pc, folder, ol_data, pg_data, results, unique_results, inputs,
                   prompts, messages, selected, dl, ret, uncaught>>

\* lines 69-80: the two lists are concatenated and printed
LinksList ==
    /\ links.pc = "list"
    /\ LET all_books == links.google_books \o links.open_library_books
       IN  links' = [links EXCEPT
                       !.pc = "done",
                       !.all_books = all_books,
                       !.listed = [i \in DOMAIN all_books |->
                                     Join(CommaSpace, all_books[i].authors)]]
    /\ UNCHANGED <<pc, folder, ol_data, pg_data, results, unique_results,
                   inputs, prompts, messages, selected, dl, ret, uncaught>>

----------------------------------------------------------------------------
(* The inputs the specifications draw from.                                *)

\* docs / books / items per search response
MaxDocs == 2

\* the sequences over S of length at most n
SeqsUpTo(S, n) == UNION {[1..k -> S] : k \in 0..n}

UPdf == <<"u",".","p","d","f">>
VEpub == <<"v",".","E","P","U","B">>
WPdf == <<"w",".","P","d","f">>
UTxt == <<"u",".","t","x","t">>
MimePdf == <<"a","/","p","d","f">>
MimeEpub == <<"a","/","E","p","u","b">>
MimeText == <<"t","/","t","x","t">>
Emma == <<"E","m","m","a">>
Ulysses == <<"U","l","y","s","s","e","s">>
Austen == <<"A","u","s","t","e","n">>
Joyce == <<"J","o","y","c","e">>

OLDoc(title, author_name, formats) ==
    [shape |-> "dict", title |-> title, author_name |-> author_name,
     formats |-> formats]

PGBook(title, authors, formats) ==
    [shape |-> "dict", title |-> title, authors |-> authors,
     formats |-> formats]

\* an entry of "docs" or "results" that is no JSON object
Garbage == [shape |-> "other"]

\* the items of a JSON object's mapping, as Python iterates them: no key
\* occurs twice
DistinctKeys(formats) ==
    \A i, j \in DOMAIN formats : formats[i][1] = formats[j][1] => i = j

\* SpecSearch: what one call of a SourceClient may be answered
SearchOLDocs ==
    {OLDoc(t, a, f) :
       t \in {<<>>, <<Emma>>},
       a \in {<<>>, << <<>> >>, << <<Austen>> >>, << <<Austen, Joyce>> >>},
       f \in {<<>>} \cup
             {<<x>> : x \in SeqsUpTo({UPdf, VEpub, UTxt, Pdf}, MaxFormats)}}
    \cup {Garbage}

SearchPGBooks ==
    {PGBook(t, a, f) :
       t \in {<<>>, <<Ulysses>>},
       a \in {<<>>, << <<>> >>, << <<[name |-> <<>>]>> >>,
              << <<[name |-> <<Joyce>>]>> >>},
       f \in {<<>>} \cup
             {<<x>> : x \in {y \in SeqsUpTo({MimePdf, MimeEpub, MimeText}
                                             \X {UPdf, WPdf}, MaxFormats) :
                               DistinctKeys(y)}}}
    \cup {Garbage}

Responses(docs) ==
    {Failed("network_error"), Failed("http_error"), NotJson, JsonOther,
     Json(<<>>)}
    \cup {Json(<<d>>) : d \in SeqsUpTo(docs, MaxDocs)}

\* SpecAggregate: each doc lists one format, so that the same URL comes
\* with different titles, formats and sources
AggregateOLDocs ==
    {OLDoc(<<Emma>>, << <<Austen>> >>, << <<UPdf>> >>),
     OLDoc(<<Ulysses>>, << <<Joyce>> >>, << <<UPdf>> >>),
     OLDoc(<<Emma>>, << <<Austen>> >>, << <<VEpub>> >>),
     OLDoc(<<Emma>>, << <<Austen>> >>, << <<UTxt>> >>)}

AggregatePGBooks ==
    {PGBook(<<Ulysses>>, << <<[name |-> <<Joyce>>]>> >>, << <<<<MimePdf, UPdf>>>> >>),
     PGBook(<<Ulysses>>, << <<[name |-> <<Joyce>>]>> >>, << <<<<MimeEpub, UPdf>>>> >>),
     PGBook(<<Emma>>, << <<[name |-> <<Austen>>]>> >>,
            << <<<<MimePdf, WPdf>>, <<MimeEpub, WPdf>>>> >>)}

AggregateResponses(docs) ==
    {Failed("network_error")} \cup {Json(<<d>>) : d \in SeqsUpTo(docs, MaxDocs)}

\* Spec: the whole of main() on a few answers of each kind
MainOLResponses ==
    {Failed("http_error"), Json(<<>>),
     Json(<< <<OLDoc(<<Emma>>, << <<Austen>> >>, << <<UPdf, VEpub>> >>)>> >>)}

MainPGResponses ==
    {NotJson, Json(<< <<>> >>),
     Json(<< <<PGBook(<<>>, << <<>> >>, << <<<<MimePdf, UPdf>>>> >>)>> >>),
     Json(<< <<PGBook(<<Ulysses>>, << <<[name |-> <<Joyce>>]>> >>,
                      << <<<<MimePdf, UPdf>>, <<MimeText, UTxt>>>> >>)>> >>)}

\* the lines typed at the selection prompt
Line0 == <<"0">>
Line1 == <<"1">>
Line2 == <<"2">>
Line3 == <<"3">>
LineMinus1 == <<"-","1">>
LineAbc == <<"a","b","c">>
LineQ == <<"q">>
LineBigQ == <<"Q">>
LinePadded2 == <<" ","2"," ">>

DisplayLines ==
    {Line0, Line1, Line2, Line3, LineMinus1, LineAbc, LineQ, LineBigQ,
     LinePadded2}

MainLines == {Line0, Line1, LineQ}

\* SpecDisplay: the k-th of the results listed
Listed(k) ==
    BookResult(<<"T", Digits[k + 1]>>, Austen, PDF, "OpenLibrary",
               <<Digits[k + 1]>> \o DotPdf)

\* the answers to the download request
Download(kind, content_length, body, chunking) ==
    [kind |-> kind, content_length |-> content_length, body |-> body,
     chunking |-> chunking]

Len8192 == <<"8","1","9","2">>
Len16384 == <<"1","6","3","8","4">>
Len20000 == <<"2","0","0","0","0">>
\* 1025 chunks of 8192 bytes
Len1025Chunks == <<"8","3","9","6","8","0","0">>

Downloads ==
    {Download("network_error", <<>>, "error", "full"),
     Download("http_error", <<>>, "error", "full"),
     Download("ok", <<Len1025Chunks>>, "ok", "full")}
    \cup {Download("ok", c, b, k) :
            c \in {<<>>, <<Line0>>, <<LineAbc>>, <<Len8192>>, <<Len16384>>,
                   <<Len20000>>},
            b \in {"ok", "error"},
            k \in {"full", "ragged"}}

MainDownloads ==
    {Download("network_error", <<>>, "error", "full"),
     Download("ok", <<>>, "ok", "full"),
     Download("ok", <<Len16384>>, "ok", "full")}

\* the lengths of "ragged" chunks; 0 is an empty keep-alive chunk
ChunkSizes == {0, chunk_size \div 2, chunk_size}

\* SpecDownload: the titles of the book to download
Titles ==
    {<<>>,
     Emma,
     <<"A","/","B",":"," ","T","e","s","t","*">>,
     <<"T","e","a"," ","&"," "," ">>,
     <<" ","a","-","b","_","1"," "," ">>,
     <<".",".","/","x","\\","y"," ","\t">>,
     <<"*"," ","/"," ">>}

DownloadBooks ==
    {BookResult(t, Austen, f, "OpenLibrary", UPdf) : t \in Titles, f \in {PDF, EPUB}}

\* get_book_links: the names typed, and the answers of the two catalogs
Names == {<<>>, <<" ">>, Emma}

VolumeInfos ==
    {<<>>} \cup {<<[title |-> t, authors |-> a]>> :
                   t \in {<<>>, <<Emma>>}, a \in {<<>>, << <<Austen, Joyce>> >>}}

AccessInfos == {<<>>, <<[webReaderLink |-> <<>>]>>, <<[webReaderLink |-> <<UPdf>>]>>}

GoogleItems ==
    {[shape |-> "dict", volumeInfo |-> v, accessInfo |-> a] :
       v \in VolumeInfos, a \in AccessInfos}
    \cup {Garbage}

LinksDocs ==
    {[shape |-> "dict", title |-> t, author_name |-> a, key |-> k] :
       t \in {<<>>, <<Emma>>}, a \in {<<>>, << <<Austen>> >>},
       k \in {<<>>, <<UPdf>>}}
    \cup {Garbage}

NotJsonAs(class) ==
    [kind |-> "not_json", decode_error |-> class,
     data |-> [shape |-> "none", items |-> <<>>]]

LinksResponses(docs) ==
    {Failed("network_error"), Failed("http_error"),
     NotJsonAs("RequestException"), NotJsonAs("ValueError"), JsonOther,
     Json(<<>>)}
    \cup {Json(<<d>>) : d \in SeqsUpTo(docs, MaxDocs)}

----------------------------------------------------------------------------
(* The specifications.                                                     *)

Blank ==
    /\ ol_data = NoResponse
    /\ pg_data = NoResponse
    /\ results = <<>>
    /\ unique_results = <<>>
    /\ inputs = <<>>
    /\ prompts = 0
    /\ messages = 0
    /\ selected = <<>>
    /\ dl = Idle
    /\ ret = "none"
    /\ uncaught = ""
    /\ links = LinksIdle

Folders == {"present", "absent", "blocked"}

\* download_books.py is started
Init ==
    /\ pc = "start"
    /\ folder \in Folders
    /\ Blank

Next ==
    \/ Construct
    \/ ReadQuery
    \/ SearchOpenLibrary(MainOLResponses)
    \/ SearchProjectGutenberg(MainPGResponses)
    \/ RemoveDuplicates
    \/ DisplayResults
    \/ IssuePrompt(MaxPrompts)
    \/ ReadChoice(MainLines)
    \/ AfterDisplay
    \/ DownloadStart(MainDownloads)
    \/ DownloadChunk({0, chunk_size})
    \/ DownloadChunkFails
    \/ DownloadEnd

Spec == Init /\ [][Next]_vars

\* main() up to the aggregation, on every combination of answers
NextAggregate ==
    \/ Construct
    \/ ReadQuery
    \/ SearchOpenLibrary(AggregateResponses(AggregateOLDocs))
    \/ SearchProjectGutenberg(AggregateResponses(AggregatePGBooks))
    \/ RemoveDuplicates

SpecAggregate == Init /\ [][NextAggregate]_vars

\* one SourceClient called on its own, on an answer of any shape
CallSearchOpenLibrary(responses) ==
    /\ pc = "call_ol"
    /\ \E resp \in responses :
         /\ ol_data' = resp
         /\ results' = search_open_library(resp)
    /\ pc' = "returned"
    /\ UNCHANGED <<folder, pg_data, unique_results, inputs, prompts, messages,
                   selected, dl, ret, uncaught, links>>

CallSearchProjectGutenberg(responses) ==
    /\ pc = "call_pg"
    /\ \E resp \in responses :
         /\ pg_data' = resp
         /\ results' = search_project_gutenberg(resp)
    /\ pc' = "returned"
    /\ UNCHANGED <<folder, ol_data, unique_results, inputs, prompts, messages,
                   selected, dl, ret, uncaught, links>>

InitSearch ==
    /\ pc \in {"call_ol", "call_pg"}
    /\ folder = "present"
    /\ Blank

NextSearch ==
    \/ CallSearchOpenLibrary(Responses(SearchOLDocs))
    \/ CallSearchProjectGutenberg(Responses(SearchPGBooks))

SpecSearch == InitSearch /\ [][NextSearch]_vars

\* display_results called on a list of 0..MaxResults results
InitDisplay ==
    /\ pc = "display"
    /\ folder = "present"
    /\ ol_data = NoResponse
    /\ pg_data = NoResponse
    /\ \E n \in 0..MaxResults :
         /\ results = [k \in 1..n |-> Listed(k)]
         /\ unique_results = results
    /\ inputs = <<>>
    /\ prompts = 0
    /\ messages = 0
    /\ selected = <<>>
    /\ dl = Idle
    /\ ret = "none"
    /\ uncaught = ""
    /\ links = LinksIdle

NextDisplay ==
    \/ DisplayResults
    \/ IssuePrompt(MaxPrompts)
    \/ ReadChoice(DisplayLines)

SpecDisplay == InitDisplay /\ [][NextDisplay]_vars

\* download_book called on a selected result
InitDownload ==
    /\ pc = "download"
    /\ folder = "present"
    /\ ol_data = NoResponse
    /\ pg_data = NoResponse
    /\ results = <<>>
    /\ unique_results = <<>>
    /\ inputs = <<>>
    /\ prompts = 0
    /\ messages = 0
    /\ selected \in {<<b>> : b \in DownloadBooks}
    /\ dl = Idle
    /\ ret = "none"
    /\ uncaught = ""
    /\ links = LinksIdle

NextDownload ==
    \/ DownloadStart(Downloads)
    \/ DownloadChunk(ChunkSizes)
    \/ DownloadChunkFails
    \/ DownloadEnd

SpecDownload == InitDownload /\ [][NextDownload]_vars

\* get_book_links.py is started
InitLinks ==
    /\ pc = "links"
    /\ folder = "present"
    /\ Blank

NextLinks ==
    \/ LinksReadNames(Names)
    \/ LinksSearchGoogle(LinksResponses(GoogleItems))
    \/ LinksSearchOpenLibrary(LinksResponses(LinksDocs))
    \/ LinksList

SpecLinks == InitLinks /\ [][NextLinks]_vars

----------------------------------------------------------------------------
(* The claims.                                                             *)

Urls(rs) == {rs[i].download_url : i \in DOMAIN rs}

\* the places of rs whose URL occurs at no earlier place
FirstPlaces(rs) ==
    {i \in DOMAIN rs :
       \A j \in 1..(i - 1) : rs[j].download_url # rs[i].download_url}

\* the last place of rs that holds the URL of place i
LastPlace(rs, i) ==
    CHOOSE j \in DOMAIN rs :
      /\ rs[j].download_url = rs[i].download_url
      /\ \A k \in (j + 1)..Len(rs) : rs[k].download_url # rs[i].download_url

\* the k-th smallest element of a set of numbers
Kth(S, k) == CHOOSE i \in S : Cardinality({j \in S : j < i}) = k - 1

\* OpenLibrary's results come before Project Gutenberg's
InQueryOrder(rs) ==
    \A i, j \in DOMAIN rs :
      rs[i].source = "Project Gutenberg" /\ rs[j].source = "OpenLibrary" => i > j

Aggregated == pc = "display"

\* C1: after the aggregation of main(), no two entries of unique_results
\* have the same download_url, every download_url of results occurs in
\* unique_results, and the length of unique_results lies between the number
\* of distinct URLs and the length of results.
C1_UniqueUrls ==
    Aggregated =>
      /\ \A i, j \in DOMAIN unique_results :
           unique_results[i].download_url = unique_results[j].download_url
             => i = j
      /\ Urls(unique_results) = Urls(results)
      /\ Len(unique_results) <= Len(results)
      /\ Len(unique_results) >= Cardinality(Urls(results))

\* C1's case: a URL found more than once has been aggregated
C1_Witness ==
    /\ Aggregated
    /\ Len(unique_results) >= 2
    /\ Len(results) > Len(unique_results)

\* C2 as claimed: the sources are concatenated in query order, and
\* unique_results holds, in order, the first entry of results for each URL.
C2_FirstEntryWins ==
    Aggregated =>
      /\ InQueryOrder(results)
      /\ Len(unique_results) = Cardinality(FirstPlaces(results))
      /\ \A k \in DOMAIN unique_results :
           unique_results[k] = results[Kth(FirstPlaces(results), k)]

\* C2 as amended: the sources are concatenated in query order, and
\* unique_results holds one entry per URL, at the place of the URL's first
\* occurrence in results, and that entry is the last one of results with
\* the URL.
C2_LastEntryAtFirstPlace ==
    Aggregated =>
      /\ InQueryOrder(results)
      /\ Len(unique_results) = Cardinality(FirstPlaces(results))
      /\ \A k \in DOMAIN unique_results :
           unique_results[k] =
             results[LastPlace(results, Kth(FirstPlaces(results), k))]

\* C2's case: two entries with the same URL differ, and another URL follows
C2_Witness ==
    /\ Aggregated
    /\ Len(unique_results) >= 2
    /\ \E i, j \in DOMAIN results :
         /\ i < j
         /\ results[i].download_url = results[j].download_url
         /\ results[i] # results[j]
         /\ results[i].source # results[j].source

\* a 2xx response whose body is a JSON object listing JSON objects
WellShaped(resp) ==
    /\ resp.kind = "json"
    /\ resp.data.shape = "dict"
    /\ \A i \in DOMAIN Get(resp.data.items, <<>>) :
         Get(resp.data.items, <<>>)[i].shape = "dict"

\* C3: no search function of get_book_links lets an exception out, and a
\* failed request, a body that is no JSON or a body of unexpected shape
\* yields the empty list.
C3_SearchesNeverRaise ==
    /\ links.uncaught = ""
    /\ links.pc \in {"open_library", "list", "done"} /\ links.google # NoResponse
         /\ ~WellShaped(links.google)
         => links.google_books = <<>>
    /\ links.pc \in {"list", "done"} /\ links.open_library # NoResponse
         /\ ~WellShaped(links.open_library)
         => links.open_library_books = <<>>

\* the author the claim C4 expects for a list of names, absent or not
ExpectedAuthor(names) == IF names = <<>> THEN Unknown ELSE Join(CommaSpace, names[1])

\* the names of a Gutenberg book's authors, when each author has one
PGNames(book) ==
    IF book.authors = <<>> THEN <<>>
    ELSE <<[k \in DOMAIN book.authors[1] |-> book.authors[1][k].name[1]]>>

PGNamed(book) ==
    book.authors # <<>> =>
      \A k \in DOMAIN book.authors[1] : book.authors[1][k].name # <<>>

Searched == pc = "returned"

\* C4: every PDF/EPUB format entry of a well-shaped response yields a
\* BookResult whose title is the payload's or "Unknown" and whose author is
\* the payload's names joined with ", " or "Unknown"; no entry is lost for
\* a missing or empty title or author field.
C4_TitleAndAuthorDefaults ==
    Searched =>
      /\ WellShaped(ol_data) =>
           LET docs == Get(ol_data.data.items, <<>>)
           IN  \A i \in DOMAIN docs :
                 \A j \in DOMAIN Get(docs[i].formats, <<>>) :
                   LET fmt == docs[i].formats[1][j]
                   IN  OLMatches(fmt) =>
                         \E k \in DOMAIN results :
                           /\ results[k].download_url = fmt
                           /\ results[k].title = Get(docs[i].title, Unknown)
                           /\ results[k].author = ExpectedAuthor(docs[i].author_name)
      /\ WellShaped(pg_data) =>
           LET books == Get(pg_data.data.items, <<>>)
           IN  \A i \in DOMAIN books :
                 \A j \in DOMAIN Get(books[i].formats, <<>>) :
                   LET entry == books[i].formats[1][j]
                   IN  PGMatches(entry[1]) /\ PGNamed(books[i]) =>
                         \E k \in DOMAIN results :
                           /\ results[k].download_url = entry[2]
                           /\ results[k].title = Get(books[i].title, Unknown)
                           /\ results[k].author = ExpectedAuthor(PGNames(books[i]))

\* the format entries of a response, in order
Entries(resp) ==
    LET docs == Get(resp.data.items, <<>>)
    IN  Concat([i \in DOMAIN docs |-> Get(docs[i].formats, <<>>)])

UrlsInOrder(rs) == [k \in DOMAIN rs |-> rs[k].download_url]

\* C5: of a well-shaped response, exactly the format entries whose format
\* string contains the PDF or EPUB marker, in any letter case, yield a
\* BookResult; its format is PDF or EPUB; without such an entry the result
\* is empty.
C5_ExactlyPdfAndEpub ==
    Searched =>
      /\ \A k \in DOMAIN results : results[k].format \in {PDF, EPUB}
      /\ WellShaped(ol_data) =>
           UrlsInOrder(results) =
             SelectSeq(Entries(ol_data),
                       LAMBDA f : \/ Contains(DotPdf, Lower(f))
                                  \/ Contains(DotEpub, Lower(f)))
      /\ WellShaped(pg_data) =>
           LET kept == SelectSeq(Entries(pg_data),
                                 LAMBDA e : \/ Contains(Pdf, Lower(e[1]))
                                            \/ Contains(Epub, Lower(e[1])))
           IN  UrlsInOrder(results) = [k \in DOMAIN kept |-> kept[k][2]]

\* C7: once display_results has been given the empty list, it has returned
\* None without a prompt and without reading a line, and main() goes on to
\* its end without a download.
C7_EmptyListNoPromptNoDownload ==
    unique_results = <<>>
      /\ pc \in {"displayed", "prompt", "read", "download", "streaming", "done"}
    => /\ pc \in {"displayed", "done"}
       /\ selected = <<>>
       /\ prompts = 0
       /\ inputs = <<>>
       /\ messages = 0
       /\ dl = Idle
       /\ ret = "none"

\* C7's case: main() has ended after both catalogs were asked and nothing
\* was found
C7_Witness ==
    /\ pc = "done"
    /\ ol_data # NoResponse
    /\ pg_data # NoResponse
    /\ unique_results = <<>>

\* C8: no failure of the file system or of the transport leaves the script
\* as an uncaught exception, and a failed download returns false.
C8_FailuresRecovered ==
    /\ uncaught = ""
    /\ pc # "crashed"
    /\ dl.stage = "failed" => ret = "false"

\* what the lines of DisplayLines are: the quit token in either case, or
\* the integer Python's int() reads, or neither (abc)
QuitLines == {LineQ, LineBigQ}

IntegerLines ==
    {<<Line0, 0>>, <<Line1, 1>>, <<Line2, 2>>, <<Line3, 3>>,
     <<LineMinus1, -1>>, <<LinePadded2, 2>>}

\* the line is an integer k with 1 <= k <= n
Picks(line, n) == \E p \in IntegerLines : p[1] = line /\ 1 <= p[2] /\ p[2] <= n

Picked(line) == (CHOOSE p \in IntegerLines : p[1] = line)[2]

\* the line ends the loop over a list of n results
Ends(line, n) == line \in QuitLines \/ Picks(line, n)

NoneEnds(lines, n) == \A i \in DOMAIN lines : ~Ends(lines[i], n)

\* C6: on a non-empty list of n results display_results returns only at
\* the first line that is q or Q (None) or an integer k in 1..n (the k-th
\* result); each line before it got one rejection message and one new
\* prompt.
C6_ReturnsAtFirstValidLine ==
    LET n == Len(unique_results)
        count == Len(inputs)
    IN  n > 0 =>
          /\ pc = "displayed" =>
               /\ count > 0
               /\ Ends(inputs[count], n)
               /\ NoneEnds(SubSeq(inputs, 1, count - 1), n)
               /\ messages = count - 1
               /\ prompts = count
               /\ selected = IF inputs[count] \in QuitLines THEN <<>>
                             ELSE <<unique_results[Picked(inputs[count])]>>
          /\ pc = "prompt" =>
               /\ NoneEnds(inputs, n)
               /\ messages = count
               /\ prompts = count
          /\ pc = "read" =>
               /\ NoneEnds(inputs, n)
               /\ messages = count
               /\ prompts = count + 1

\* C6's case: 0, -1, abc, 2 against two results: three rejections, four
\* prompts, the second result returned
C6_Witness ==
    /\ pc = "displayed"
    /\ Len(unique_results) = 2
    /\ inputs = <<Line0, LineMinus1, LineAbc, Line2>>
    /\ messages = 3
    /\ prompts = 4
    /\ selected = <<Listed(2)>>

\* the reports of a download whose length is known, while no more bytes
\* than that have arrived
Reporting(k) ==
    /\ dl.total_size > 0
    /\ dl.reports >= k
    /\ dl.downloaded <= dl.total_size

\* C9 as claimed: each reported progress value is greater than the one
\* reported before it, and a download that received content-length bytes
\* ends on 100%.
C9_ReportsStrictlyIncrease ==
    /\ Reporting(2) => dl.prev_shown < dl.shown
    /\ Reporting(1) /\ ret = "true" /\ dl.downloaded = dl.total_size
         => dl.shown = 1000

\* C9 as amended: the percentage computed for a chunk is greater than the
\* one computed before it (same length, more bytes); the value reported is
\* that percentage rounded to one decimal, which never decreases but may
\* repeat; a download that received content-length bytes ends on 100.0%.
C9_ReportsNeverDecrease ==
    /\ Reporting(1) =>
         LET g == GCD(dl.downloaded, dl.total_size)
             exact == (dl.downloaded \div g) * 1000
             m == dl.total_size \div g
         IN  /\ dl.prev_downloaded < dl.downloaded
             /\ 2 * (dl.shown * m - exact) <= m
             /\ 2 * (exact - dl.shown * m) <= m
    /\ Reporting(2) => dl.prev_shown <= dl.shown
    /\ Reporting(1) /\ ret = "true" /\ dl.downloaded = dl.total_size
         => dl.shown = 1000

\* C9's case: content-length 16384 and two chunks of 8192 bytes: 50.0%,
\* then 100.0%
C9_Witness ==
    /\ ret = "true"
    /\ dl.total_size = 16384
    /\ dl.chunks = 2
    /\ dl.reports = 2
    /\ dl.prev_downloaded = 8192
    /\ dl.prev_shown = 500
    /\ dl.shown = 1000

SlashTitle == <<"A","/","B",":"," ","T","e","s","t","*">>

\* C10: the filename is the title without the characters that are not
\* alphanumeric, space, hyphen or underscore, without its trailing
\* whitespace, then "." and the format in lower case; it holds no path
\* separator; "A/B: Test*" as PDF gives "AB Test.pdf".
C10_SanitisedFilename ==
    dl.filename # <<>> =>
      LET title == selected[1].title
          kept == SelectSeq(title, LAMBDA c : IsAlnum(c) \/ c \in {" ", "-", "_"})
          ext == IF selected[1].format = PDF THEN Pdf ELSE Epub
      IN  /\ \E k \in 0..Len(kept) :
                /\ k = 0 \/ kept[k] \notin Whitespace
                /\ \A j \in (k + 1)..Len(kept) : kept[j] \in Whitespace
                /\ dl.filename = SubSeq(kept, 1, k) \o <<".">> \o ext
          /\ \A i \in DOMAIN dl.filename : dl.filename[i] \notin {"/", "\\"}
          /\ title = SlashTitle /\ selected[1].format = PDF
               => dl.filename = <<"A","B"," ","T","e","s","t",".","p","d","f">>

\* C10's case: the file of "A/B: Test*" as PDF has been named
C10_Witness ==
    /\ selected # <<>>
    /\ selected[1].title = SlashTitle
    /\ dl.filename = <<"A","B"," ","T","e","s","t",".","p","d","f">>
    /\ dl.file = "written"

============================================================================
